---------------------------- MODULE Spec2Model ----------------------------
(***************************************************************************)
(* A model of hk's command dispatcher (main.go) and of its credential      *)
(* store (hkclient/creds.go).                                              *)
(*                                                                         *)
(*   Spec        the dispatcher: one process run, from os.Args to exit     *)
(*   CredsSpec   the credential store of one instance: SaveCreds,          *)
(*               RemoveCreds (each with the steps of ioutil.WriteFile)     *)
(*               and GetCreds                                              *)
(*   SharedSpec  the same mutations, with a second instance's LoadNetRc    *)
(*               reading the file while they run                           *)
(***************************************************************************)
EXTENDS Integers, Sequences, FiniteSets, TLC

VARIABLES
    \* ---- dispatcher (main.go) ----
    args,       \* os.Args[1:], a sequence of tokens
    hkapp,      \* the HKAPP environment variable
    remotes,    \* git remotes: remote name -> app name ("" = not a heroku remote)
    plugins,    \* names for which a plugin executable exists
    pc,         \* position of main()
    cmd,        \* name of the command matched by the loop ("" = none)
    flagApp,    \* the package variable flagApp
    rest,       \* cmd.Flag.Args() after a successful parse
    appRes,     \* the result (a, err) of the dispatcher's call of app()
    exitCode,   \* process exit code (-1 = still running)
    handler,    \* the handler invocation: [name, args] (name "" = none)
    trace,      \* the steps main() has performed, in order
    gitLog,     \* the arguments of the dispatcher's appFromGitRemote calls, in order
    remotes0,   \* the git remotes as they were when the process started
    mustRes,    \* the result (a, err) of the handler's mustApp() call
    \* ---- credential store (hkclient/creds.go) ----
    machines,   \* nrc's records, in file order
    disk,       \* the tokens of the credential file on disk
    cpc,        \* position of the running SaveCreds / RemoveCreds call
    call,       \* the current (or last) call and its arguments
    body,       \* the text MarshalText returned to the current (or last) call
    cerr,       \* the error the last call returned ("" = nil)
    pre,        \* machines when the current (or last) call began, and the
                \* file's text at that time while the call is running
    seen,       \* what the second instance's LoadNetRc read
    got,        \* the last GetCreds call and its result
    \* ---- listReleases (releases.go) ----
    versions,   \* the version names requested, in order
    rpc,        \* position of listReleases
    spawned,    \* number of entries the loop of releases.go:81 has handled
    workers,    \* state of the goroutine of each entry
    relch,      \* the buffered channel relch (0 = nil)
    errch,      \* the buffered channel errch
    recvd,      \* number of messages the loop of releases.go:94 received
    rels,       \* the releases collected, in order of receipt
    rows,       \* the rows printed
    fatalErr,   \* the error printFatal ended the process with (0 = none)
    \* ---- abbrevEmailReleases (releases.go) ----
    emails,     \* r.User.Email of each release
    epc,        \* position of abbrevEmailReleases
    domains,    \* the map domains
    todo,       \* keys the range over domains has not visited yet
    smax,       \* the local smax
    nmax,       \* the local nmax
    who         \* r.Who of each release

dvars == <<args, hkapp, remotes, plugins, pc, cmd, flagApp, rest, appRes,
           exitCode, handler, trace, gitLog, remotes0, mustRes>>
cvars == <<machines, disk, cpc, call, body, cerr, pre, seen, got>>
rvars == <<versions, rpc, spawned, workers, relch, errch, recvd, rels, rows,
           fatalErr>>
evars == <<emails, epc, domains, todo, smax, nmax, who>>
lvars == <<rvars, evars>>
vars  == <<dvars, cvars, lvars>>

(***************************************************************************)
(* Bounds                                                                  *)
(***************************************************************************)
\* longest argument list after the command name
MaxArgs == 2
\* most records the in-memory store may hold
MaxMachines == 4

(***************************************************************************)
(* Tokens of the command line.  A flag token is -name or -name=v; "--" is  *)
(* the terminator; anything else is positional.                            *)
(***************************************************************************)
F(n)     == [k |-> "flag", name |-> n, hasv |-> FALSE, v |-> ""]
FV(n, v) == [k |-> "flag", name |-> n, hasv |-> TRUE, v |-> v]
P(v)     == [k |-> "pos", name |-> "", hasv |-> FALSE, v |-> v]
Term     == [k |-> "term", name |-> "", hasv |-> FALSE, v |-> ""]

\* the text of a token when flag.Parse consumes it as a flag's value
Raw(t) == IF t.k = "pos" THEN t.v ELSE "-dash"

TailTokens == {F("a"), F("n"), F("r"), FV("a", "heroku"), FV("a", ""),
               P("heroku"), P("7"), Term}

RECURSIVE SeqsUpTo(_, _)
SeqsUpTo(S, n) ==
    IF n = 0 THEN {<<>>}
    ELSE LET shorter == SeqsUpTo(S, n - 1)
         IN  shorter \cup {Append(s, t) : s \in {x \in shorter : Len(x) = n - 1}, t \in S}

FirstNames == {"create", "releases", "environ", "update", "nosuch", "creat"}
ArgVectors ==
    {<<>>} \cup
    {<<f>> \o t : f \in {P(n) : n \in FirstNames} \cup {F("a")},
                  t \in SeqsUpTo(TailTokens, MaxArgs)}

(***************************************************************************)
(* The commands table.  run = (Run != nil).  flags: the command's own flag *)
(* schema, name -> type.                                                   *)
(***************************************************************************)
NoFlags == [n \in {} |-> ""]

cmdCreate   == [name |-> "create", run |-> TRUE, needsApp |-> FALSE,
                flags |-> [n \in {"r"} |-> "string"]]
cmdReleases == [name |-> "releases", run |-> TRUE, needsApp |-> TRUE,
                flags |-> [n \in {"n"} |-> "int"]]
helpEnviron == [name |-> "environ", run |-> FALSE, needsApp |-> FALSE,
                flags |-> NoFlags]
cmdUpdate   == [name |-> "update", run |-> TRUE, needsApp |-> FALSE,
                flags |-> NoFlags]

commands == <<cmdCreate, cmdReleases, helpEnviron, cmdUpdate>>

CommandNames == {commands[i].name : i \in DOMAIN commands}
CommandNamed(n) == commands[CHOOSE i \in DOMAIN commands : commands[i].name = n]


(***************************************************************************)
(* cmd.Flag.Parse(args[1:]) of package flag, with the FlagSet's zero-value *)
(* ContinueOnError policy: the first failure is returned as an error.      *)
(* schema: flag name -> type.  fa: the value of flagApp so far.            *)
(***************************************************************************)
IntTexts == {"7"}

FlagValueOk(type, text) == type = "int" => text \in IntTexts

RECURSIVE ParseFlags(_, _, _)
ParseFlags(schema, tail, fa) ==
    IF tail = <<>> THEN [err |-> FALSE, flagApp |-> fa, rest |-> <<>>]
    ELSE LET t == Head(tail) IN
         CASE t.k = "pos"  -> [err |-> FALSE, flagApp |-> fa, rest |-> tail]
           [] t.k = "term" -> [err |-> FALSE, flagApp |-> fa, rest |-> Tail(tail)]
           [] OTHER ->
                IF t.name \notin DOMAIN schema
                THEN \* flag provided but not defined
                     [err |-> TRUE, flagApp |-> fa, rest |-> <<>>]
                ELSE IF ~t.hasv /\ Len(tail) = 1
                THEN \* flag needs an argument
                     [err |-> TRUE, flagApp |-> fa, rest |-> <<>>]
                ELSE LET text  == IF t.hasv THEN t.v ELSE Raw(tail[2])
                         after == IF t.hasv THEN Tail(tail) ELSE Tail(Tail(tail))
                     IN  IF ~FlagValueOk(schema[t.name], text)
                         THEN \* invalid value for flag
                              [err |-> TRUE, flagApp |-> fa, rest |-> <<>>]
                         ELSE ParseFlags(schema, after,
                                         IF t.name = "a" THEN text ELSE fa)

\* the schema main() parses against: the command's own flags, plus -a when
\* the command needs an app
\* (main.go: if cmd.NeedsApp { cmd.Flag.StringVar(&flagApp, "a", "", ...) })
SchemaOf(c) ==
    IF c.needsApp
    THEN [n \in DOMAIN c.flags \cup {"a"} |-> IF n = "a" THEN "string" ELSE c.flags[n]]
    ELSE c.flags

(***************************************************************************)
(* The git remote inspector (git.go, outside src/).                        *)
(***************************************************************************)
RemoteNames == {"heroku", "staging"}
RemoteStates ==
    {r \in [RemoteNames -> {"", "app1", "app2"}] : r["staging"] \in {"", "app2"}}

errMultipleHerokuRemotes == "multiple apps in git remotes"
errGit == "git error"

RemoteApps(rs) == {rs[n] : n \in RemoteNames} \ {""}

\* every outcome appFromGitRemote(remote) can have with remotes rs
appFromGitRemote(rs, remote) ==
    {[a |-> "", err |-> errGit]} \cup
    IF remote # ""
    THEN IF remote \in RemoteNames /\ rs[remote] # ""
         THEN {[a |-> rs[remote], err |-> ""]}
         ELSE {}
    ELSE CASE Cardinality(RemoteApps(rs)) > 1 ->
                {[a |-> "", err |-> errMultipleHerokuRemotes]}
           [] Cardinality(RemoteApps(rs)) = 1 ->
                {[a |-> x, err |-> ""] : x \in RemoteApps(rs)}
           [] OTHER -> {[a |-> "", err |-> ""]}

\* the values remoteFromGitConfig() can return (git config heroku.remote)
remoteFromGitConfig == {"", "staging"}

\* app() with the environment variable consulted before the flag
appEnvFirst(fa, env, rs) ==
    IF env # "" THEN {[a |-> env, err |-> "", calls |-> <<>>]}
    ELSE IF fa # "" THEN {[a |-> fa, err |-> "", calls |-> <<>>]}
    ELSE UNION {{[a |-> o.a, err |-> o.err, calls |-> <<r>>] :
                     o \in appFromGitRemote(rs, r)} : r \in remoteFromGitConfig}

(***************************************************************************)
(* app(): every outcome, each with the appFromGitRemote calls it made.     *)
(***************************************************************************)
app(fa, env, rs) ==
    IF fa # "" THEN {[a |-> fa, err |-> "", calls |-> <<>>]}
    ELSE IF env # "" THEN {[a |-> env, err |-> "", calls |-> <<>>]}
    ELSE UNION {{[a |-> o.a, err |-> o.err, calls |-> <<r>>] :
                     o \in appFromGitRemote(rs, r)} : r \in remoteFromGitConfig}


(***************************************************************************)
(* main()                                                                  *)
(***************************************************************************)
\* os.Exit(2) of a usage error
ExitUsage == 2
\* the exit code of printFatal
ExitFatal == 1

NoHandler == [name |-> "", args |-> <<>>]
NoAppRes  == [a |-> "", err |-> ""]

NoCall == [op |-> "", host |-> "", user |-> "", pass |-> ""]
NoPre  == [machines |-> <<>>, disk |-> <<>>]
NoSeen == [read |-> FALSE, text |-> <<>>, old |-> <<>>, new |-> <<>>]
NoGot  == [called |-> FALSE, host |-> "", hasUser |-> FALSE, urlUser |-> "",
           urlPass |-> "", user |-> "", pass |-> "", err |-> "", looked |-> FALSE]

CredsIdle ==
    /\ machines = <<>>
    /\ disk = <<>>
    /\ cpc = "idle"
    /\ call = NoCall
    /\ body = <<>>
    /\ cerr = ""
    /\ pre = NoPre
    /\ seen = NoSeen
    /\ got = NoGot

\* abbrevEmailReleases is not running
AbbrevIdle ==
    /\ emails = <<>>
    /\ epc = "idle"
    /\ domains = <<>>
    /\ todo = {}
    /\ smax = ""
    /\ nmax = 0
    /\ who = <<>>

\* listReleases and abbrevEmailReleases are not running
ListIdle ==
    /\ AbbrevIdle
    /\ versions = <<>>
    /\ rpc = "idle"
    /\ spawned = 0
    /\ workers = <<>>
    /\ relch = <<>>
    /\ errch = <<>>
    /\ recvd = 0
    /\ rels = <<>>
    /\ rows = <<>>
    /\ fatalErr = 0

Init ==
    /\ args \in ArgVectors
    /\ hkapp \in {"", "envapp"}
    /\ remotes \in RemoteStates
    /\ plugins \in {{}, FirstNames}
    /\ pc = "start"
    /\ cmd = ""
    /\ flagApp = ""
    /\ rest = <<>>
    /\ appRes = NoAppRes
    /\ exitCode = -1
    /\ handler = NoHandler
    /\ trace = <<>>
    /\ gitLog = <<>>
    /\ remotes0 = remotes
    /\ mustRes = NoAppRes
    /\ CredsIdle
    /\ ListIdle

\* step e has been performed
InTrace(e) == \E i \in DOMAIN trace : trace[i] = e

\* the process ends with exit code `code` after step `ev`
Exit(code, ev) ==
    /\ pc' = "exit"
    /\ exitCode' = code
    /\ trace' = Append(trace, ev)

\* Start with the call of initClients (main.go:202) left out
StartNoInit ==
    /\ pc = "start"
    /\ IF Len(args) < 1 \/ args[1].k # "pos"
       THEN /\ Exit(ExitUsage, "usage")
            /\ UNCHANGED handler
       ELSE IF args[1].v = cmdUpdate.name
       THEN /\ handler' = [name |-> cmdUpdate.name, args |-> args]
            /\ pc' = "running"
            /\ trace' = Append(trace, "invoke")
            /\ UNCHANGED exitCode
       ELSE /\ pc' = "match"
            /\ UNCHANGED <<handler, trace, exitCode>>
    /\ UNCHANGED <<args, hkapp, remotes, plugins, cmd, flagApp, rest, appRes, gitLog>>
    /\ UNCHANGED <<remotes0, mustRes, cvars, lvars>>

\* main.go:183-196: the argument check and the early dispatch of update
Start ==
    /\ pc = "start"
    /\ IF Len(args) < 1 \/ args[1].k # "pos"
       THEN /\ Exit(ExitUsage, "usage")
            /\ UNCHANGED handler
       ELSE IF args[1].v = cmdUpdate.name
       THEN /\ handler' = [name |-> cmdUpdate.name, args |-> args]
            /\ pc' = "running"
            /\ trace' = Append(trace, "invoke")
            /\ UNCHANGED exitCode
       ELSE /\ pc' = "init"
            /\ UNCHANGED <<handler, trace, exitCode>>
    /\ UNCHANGED <<args, hkapp, remotes, plugins, cmd, flagApp, rest, appRes, gitLog>>
    /\ UNCHANGED <<remotes0, mustRes, cvars, lvars>>

\* main.go:202, 167-177
InitClients ==
    /\ pc = "init"
    /\ pc' = "match"
    /\ trace' = Append(trace, "initClients")
    /\ UNCHANGED <<args, hkapp, remotes, plugins, cmd, flagApp, rest, appRes,
                   exitCode, handler, gitLog>>
    /\ UNCHANGED <<remotes0, mustRes, cvars, lvars>>

\* Matches with the loop starting at the second entry of the table
MatchesFromSecond(name) ==
    {i \in DOMAIN commands : i > 1 /\ commands[i].name = name /\ commands[i].run}

\* main.go:204-205: the commands the loop's condition accepts for `name`
Matches(name) ==
    {i \in DOMAIN commands : commands[i].name = name /\ commands[i].run}

MatchCommand ==
    /\ pc = "match"
    /\ LET m == Matches(args[1].v) IN
       IF m # {}
       THEN /\ cmd' = commands[CHOOSE i \in m : \A j \in m : i <= j].name
            /\ pc' = "parse"
       ELSE /\ cmd' = ""
            /\ pc' = "plugin"
    /\ UNCHANGED <<args, hkapp, remotes, plugins, flagApp, rest, appRes,
                   exitCode, handler, trace, gitLog>>
    /\ UNCHANGED <<remotes0, mustRes, cvars, lvars>>

\* ParseArgs with the error of cmd.Flag.Parse ignored
ParseArgsIgnoreErr ==
    /\ pc = "parse"
    /\ LET r == ParseFlags(SchemaOf(CommandNamed(cmd)), Tail(args), "") IN
       /\ pc' = "translate"
       /\ trace' = Append(trace, IF r.err THEN "parsefail" ELSE "parse")
       /\ flagApp' = r.flagApp
       /\ rest' = r.rest
       /\ UNCHANGED exitCode
    /\ UNCHANGED <<args, hkapp, remotes, plugins, cmd, appRes, handler, gitLog>>
    /\ UNCHANGED <<remotes0, mustRes, cvars, lvars>>

\* main.go:206-214
ParseArgs ==
    /\ pc = "parse"
    /\ LET r == ParseFlags(SchemaOf(CommandNamed(cmd)), Tail(args), "") IN
       IF r.err
       THEN /\ Exit(ExitUsage, "parsefail")
            /\ UNCHANGED rest
            /\ flagApp' = r.flagApp
       ELSE /\ pc' = "translate"
            /\ trace' = Append(trace, "parse")
            /\ flagApp' = r.flagApp
            /\ rest' = r.rest
            /\ UNCHANGED exitCode
    /\ UNCHANGED <<args, hkapp, remotes, plugins, cmd, appRes, handler, gitLog>>
    /\ UNCHANGED <<remotes0, mustRes, cvars, lvars>>

\* TranslateFlagApp with a failed appFromGitRemote ending the process in the
\* usage exit
TranslateFlagAppStrict ==
    /\ pc = "translate"
    /\ IF flagApp # ""
       THEN \E o \in appFromGitRemote(remotes, flagApp) :
              /\ flagApp' = IF o.err = "" THEN o.a ELSE flagApp
              /\ gitLog' = Append(gitLog, flagApp)
              /\ IF o.err = ""
                 THEN /\ trace' = trace \o <<"gitremote", "translated">>
                      /\ pc' = "resolve"
                      /\ UNCHANGED exitCode
                 ELSE /\ trace' = trace \o <<"gitremote", "nouse">>
                      /\ pc' = "exit"
                      /\ exitCode' = ExitUsage
       ELSE /\ pc' = "resolve"
            /\ UNCHANGED <<flagApp, gitLog, trace, exitCode>>
    /\ UNCHANGED <<args, hkapp, remotes, plugins, cmd, rest, appRes, handler>>
    /\ UNCHANGED <<remotes0, mustRes, cvars, lvars>>

\* main.go:215-219
TranslateFlagApp ==
    /\ pc = "translate"
    /\ pc' = "resolve"
    /\ IF flagApp # ""
       THEN \E o \in appFromGitRemote(remotes, flagApp) :
              /\ flagApp' = IF o.err = "" THEN o.a ELSE flagApp
              /\ gitLog' = Append(gitLog, flagApp)
              /\ trace' = trace \o <<"gitremote",
                                     IF o.err = "" THEN "translated" ELSE "literal">>
       ELSE UNCHANGED <<flagApp, gitLog, trace>>
    /\ UNCHANGED <<args, hkapp, remotes, plugins, cmd, rest, appRes, exitCode, handler>>
    /\ UNCHANGED <<remotes0, mustRes, cvars, lvars>>

\* ResolveApp without the `err == nil && a == ""` case of the switch
ResolveAppEmptyOk ==
    /\ pc = "resolve"
    /\ IF CommandNamed(cmd).needsApp
       THEN \E o \in app(flagApp, hkapp, remotes) :
              /\ appRes' = [a |-> o.a, err |-> o.err]
              /\ gitLog' = gitLog \o o.calls
              /\ CASE o.err = errMultipleHerokuRemotes ->
                        Exit(ExitUsage, "nouse")
                   [] o.err # "" ->
                        Exit(ExitFatal, "fatal")
                   [] OTHER ->
                        /\ pc' = "invoke"
                        /\ trace' = Append(trace, "app")
                        /\ UNCHANGED exitCode
       ELSE /\ pc' = "invoke"
            /\ UNCHANGED <<appRes, gitLog, trace, exitCode>>
    /\ UNCHANGED <<args, hkapp, remotes, plugins, cmd, flagApp, rest, handler>>
    /\ UNCHANGED <<remotes0, mustRes, cvars, lvars>>

\* main.go:220-234
ResolveApp ==
    /\ pc = "resolve"
    /\ IF CommandNamed(cmd).needsApp
       THEN \E o \in app(flagApp, hkapp, remotes) :
              /\ appRes' = [a |-> o.a, err |-> o.err]
              /\ gitLog' = gitLog \o o.calls
              /\ CASE o.err = errMultipleHerokuRemotes \/ (o.err = "" /\ o.a = "") ->
                        Exit(ExitUsage, "nouse")
                   [] o.err # "" ->
                        Exit(ExitFatal, "fatal")
                   [] OTHER ->
                        /\ pc' = "invoke"
                        /\ trace' = Append(trace, "app")
                        /\ UNCHANGED exitCode
       ELSE /\ pc' = "invoke"
            /\ UNCHANGED <<appRes, gitLog, trace, exitCode>>
    /\ UNCHANGED <<args, hkapp, remotes, plugins, cmd, flagApp, rest, handler>>
    /\ UNCHANGED <<remotes0, mustRes, cvars, lvars>>

\* main.go:235
Invoke ==
    /\ pc = "invoke"
    /\ handler' = [name |-> cmd, args |-> rest]
    /\ pc' = "running"
    /\ trace' = Append(trace, "invoke")
    /\ UNCHANGED <<args, hkapp, remotes, plugins, cmd, flagApp, rest, appRes,
                   exitCode, gitLog>>
    /\ UNCHANGED <<remotes0, mustRes, cvars, lvars>>

\* main.go:193, 236: the handler returns, or ends the process itself
HandlerReturn ==
    /\ pc = "running"
    /\ handler.name # cmdCreate.name
    /\ handler.name = cmdReleases.name => InTrace("mustApp")
    /\ \E code \in {0, ExitFatal} : Exit(code, "return")
    /\ UNCHANGED <<args, hkapp, remotes, plugins, cmd, flagApp, rest, appRes,
                   handler, gitLog>>
    /\ UNCHANGED <<remotes0, mustRes, cvars, lvars>>

\* the apps a git remote can be pointed at
AppsOf(n) == {rs[n] : rs \in RemoteStates} \ {""}

\* create.go:43 run by another process in the same repository, or git run by
\* the user, while the handler has not yet called mustApp: a remote is added
\* or pointed at another app
GitRemoteChange ==
    /\ pc = "running"
    /\ handler.name = cmdReleases.name
    /\ ~InTrace("mustApp")
    /\ ~InTrace("gitchange")
    /\ \E n \in RemoteNames : \E x \in AppsOf(n) \ {remotes[n]} :
           remotes' = [remotes EXCEPT ![n] = x]
    /\ trace' = Append(trace, "gitchange")
    /\ UNCHANGED <<args, hkapp, plugins, pc, cmd, flagApp, rest, appRes,
                   exitCode, handler, gitLog, remotes0, mustRes>>
    /\ UNCHANGED <<cvars, lvars>>

\* MustApp returning the result the dispatcher's call of app() had
MustAppCached ==
    /\ pc = "running"
    /\ handler.name = cmdReleases.name
    /\ ~InTrace("mustApp")
    /\ mustRes' = appRes
    /\ trace' = Append(trace, "mustApp")
    /\ UNCHANGED <<pc, exitCode>>
    /\ UNCHANGED <<args, hkapp, remotes, plugins, cmd, flagApp, rest, appRes,
                   handler, gitLog, remotes0>>
    /\ UNCHANGED <<cvars, lvars>>

\* main.go:265-271 called at releases.go:57: the handler's own call of app();
\* an error ends the process through printFatal
MustApp ==
    /\ pc = "running"
    /\ handler.name = cmdReleases.name
    /\ ~InTrace("mustApp")
    /\ \E o \in app(flagApp, hkapp, remotes) :
          /\ mustRes' = [a |-> o.a, err |-> o.err]
          /\ IF o.err # ""
             THEN /\ pc' = "exit"
                  /\ exitCode' = ExitFatal
                  /\ trace' = trace \o <<"mustApp", "return">>
             ELSE /\ trace' = Append(trace, "mustApp")
                  /\ UNCHANGED <<pc, exitCode>>
    /\ UNCHANGED <<args, hkapp, remotes, plugins, cmd, flagApp, rest, appRes,
                   handler, gitLog, remotes0>>
    /\ UNCHANGED <<cvars, lvars>>

\* create.go:33-45: AppCreate fails and must(err) ends the process, or the
\* app is created and `git remote add heroku` is run, its result ignored (it
\* fails when the remote exists)
runCreate ==
    /\ pc = "running"
    /\ handler.name = cmdCreate.name
    /\ \/ /\ Exit(ExitFatal, "return")
          /\ UNCHANGED remotes
       \/ /\ \E x \in AppsOf("heroku") :
                remotes' = IF remotes["heroku"] = ""
                           THEN [remotes EXCEPT !["heroku"] = x]
                           ELSE remotes
          /\ Exit(0, "return")
    /\ UNCHANGED <<args, hkapp, plugins, cmd, flagApp, rest, appRes,
                   handler, gitLog, remotes0, mustRes>>
    /\ UNCHANGED <<cvars, lvars>>

\* suggest (its file is outside src/): the names of the table that are close
\* to the name typed, over the names of the model
suggest(name) ==
    {c \in {"create"} : name = "creat" /\ c \in CommandNames}

\* FindPlugin with the branch of the missing plugin falling through to the
\* exec step instead of ending the process
FindPluginNoExit ==
    /\ pc = "plugin"
    /\ pc' = "exec"
    /\ trace' = Append(trace, "findPlugin")
    /\ UNCHANGED exitCode
    /\ UNCHANGED <<args, hkapp, remotes, plugins, cmd, flagApp, rest, appRes,
                   handler, gitLog>>
    /\ UNCHANGED <<remotes0, mustRes, cvars, lvars>>

\* main.go:240-248
FindPlugin ==
    /\ pc = "plugin"
    /\ IF args[1].v \in plugins
       THEN /\ pc' = "exec"
            /\ trace' = Append(trace, "findPlugin")
            /\ UNCHANGED exitCode
       ELSE /\ pc' = "exit"
            /\ exitCode' = ExitUsage
            /\ trace' = trace \o <<"findPlugin", "unknown">> \o
                           (IF suggest(args[1].v) # {} THEN <<"alternatives">> ELSE <<>>)
    /\ UNCHANGED <<args, hkapp, remotes, plugins, cmd, flagApp, rest, appRes,
                   handler, gitLog>>
    /\ UNCHANGED <<remotes0, mustRes, cvars, lvars>>

\* main.go:249-250: the plugin runs and its status is the process's, or the
\* exec fails and printFatal ends the process
ExecPlugin ==
    /\ pc = "exec"
    /\ \E code \in {0, ExitFatal} : Exit(code, "execPlugin")
    /\ UNCHANGED <<args, hkapp, remotes, plugins, cmd, flagApp, rest, appRes,
                   handler, gitLog>>
    /\ UNCHANGED <<remotes0, mustRes, cvars, lvars>>

Next ==
    \/ Start
    \/ InitClients
    \/ MatchCommand
    \/ ParseArgs
    \/ TranslateFlagApp
    \/ ResolveApp
    \/ Invoke
    \/ GitRemoteChange
    \/ MustApp
    \/ runCreate
    \/ HandlerReturn
    \/ FindPlugin
    \/ ExecPlugin

Spec == Init /\ [][Next]_vars


(***************************************************************************)
(* Properties of the dispatcher                                            *)
(***************************************************************************)
\* the first argument is a command name
HasName == Len(args) >= 1 /\ args[1].k = "pos"

\* the first argument names an entry of the commands table
NamesRegistered == HasName /\ args[1].v \in CommandNames

\* the first argument names an entry of the commands table that has a handler
NamesRunnable ==
    HasName /\ \E i \in DOMAIN commands : commands[i].name = args[1].v /\ commands[i].run

PluginReached == pc \in {"plugin", "exec"} \/ InTrace("findPlugin") \/ InTrace("execPlugin")

\* C1 as stated: dispatching the name of any registered command, runnable or
\* not, never reaches plugin resolution.
C1_RegisteredNeverReachesPlugin == NamesRegistered => ~PluginReached

\* C1 amended: dispatching the name of a registered command that has a handler
\* (Run != nil; update included) never reaches plugin resolution, even when a
\* plugin executable of the same name exists.
C1_RunnableNeverReachesPlugin == NamesRunnable => ~PluginReached

C1_Witness ==
    /\ NamesRunnable
    /\ args[1].v \in plugins
    /\ args[1].v # cmdUpdate.name
    /\ handler.name = args[1].v
    /\ pc = "exit"

\* the dispatcher has called app()
Resolved == InTrace("app") \/ InTrace("nouse") \/ InTrace("fatal")

\* the -a value as the user gave it
GivenFlag == ParseFlags(SchemaOf(CommandNamed(cmd)), Tail(args), "").flagApp

\* C2: the dispatcher's app() result follows flag > HKAPP > remotes: with a
\* non-empty -a the result is that value (or the app of the remote it names)
\* and neither HKAPP nor the default remote inspection is used; with no -a and
\* a non-empty HKAPP the result is HKAPP verbatim and no remote is consulted;
\* only with both empty does the remote inspection decide.
C2_Precedence ==
    Resolved =>
        IF GivenFlag # ""
        THEN /\ appRes.err = ""
             /\ gitLog = <<GivenFlag>>
             /\ \/ appRes.a = GivenFlag
                \/ /\ GivenFlag \in RemoteNames
                   /\ remotes0[GivenFlag] # ""
                   /\ appRes.a = remotes0[GivenFlag]
        ELSE IF hkapp # ""
        THEN /\ appRes = [a |-> hkapp, err |-> ""]
             /\ gitLog = <<>>
        ELSE /\ Len(gitLog) = 1
             /\ gitLog[1] \in remoteFromGitConfig
             /\ appRes \in appFromGitRemote(remotes0, gitLog[1])

C2_Witness ==
    /\ Resolved
    /\ GivenFlag # ""
    /\ hkapp # ""
    /\ Cardinality(RemoteApps(remotes0)) > 1
    /\ appRes.a = GivenFlag
    /\ handler.name = cmd

\* the arguments after the command name do not parse against the schema of
\* the runnable command the first argument names
BadFlagsFor(c) ==
    /\ HasName
    /\ args[1].v = c.name
    /\ c.run
    /\ ParseFlags(SchemaOf(c), Tail(args), "").err

NoResolutionNoHandler ==
    /\ handler.name = ""
    /\ gitLog = <<>>
    /\ ~InTrace("gitremote")
    /\ ~Resolved
    /\ ~InTrace("invoke")
    /\ pc = "exit" => exitCode = ExitUsage

\* C3 as stated: whenever the arguments of the matched command hold an unknown
\* flag or a malformed value, the run makes no resolution step and no handler
\* call, and exits with code 2.
C3_BadFlagsNeverRun ==
    \A i \in DOMAIN commands : BadFlagsFor(commands[i]) => NoResolutionNoHandler

\* C3 amended: the same for every matched command but update, which main()
\* hands to its handler before any flag parsing; and a flag-parse failure exit
\* is never preceded or followed by a resolution or handler step.
C3_BadFlagsNeverRunButUpdate ==
    /\ \A i \in DOMAIN commands :
          (BadFlagsFor(commands[i]) /\ commands[i].name # cmdUpdate.name)
              => NoResolutionNoHandler
    /\ InTrace("parsefail") =>
          /\ NoResolutionNoHandler
          /\ pc = "exit"
          /\ exitCode = ExitUsage
          /\ trace[Len(trace)] = "parsefail"

C3_Witness ==
    /\ BadFlagsFor(cmdReleases)
    /\ InTrace("parsefail")
    /\ exitCode = ExitUsage

\* C4: for a matched command that needs an app and whose flags parsed, the
\* ambiguity error or an empty app with no error ends the run with exit code 2
\* (error and usage printed), any other error ends it fatally, in both cases
\* with no handler call; the handler runs only on a non-empty app and no error.
C4_ResolutionOutcome ==
    /\ Resolved =>
          CASE appRes.err = errMultipleHerokuRemotes \/ (appRes.err = "" /\ appRes.a = "") ->
                 /\ pc = "exit"
                 /\ exitCode = ExitUsage
                 /\ trace[Len(trace)] = "nouse"
                 /\ handler.name = ""
            [] appRes.err # "" ->
                 /\ pc = "exit"
                 /\ exitCode = ExitFatal
                 /\ exitCode # ExitUsage
                 /\ handler.name = ""
            [] OTHER -> pc \in {"invoke", "running", "exit"}
    /\ (cmd # "" /\ CommandNamed(cmd).needsApp /\ handler.name # "") =>
          /\ Resolved
          /\ appRes.err = ""
          /\ appRes.a # ""

C4_Witness ==
    /\ Resolved
    /\ CommandNamed(cmd).needsApp
    /\ appRes.err = ""
    /\ appRes.a = ""
    /\ exitCode = ExitUsage
    /\ handler.name = ""


(***************************************************************************)
(* The credential store (hkclient/creds.go over go-netrc).  A record is    *)
(* [name, login, password]; the default record has the empty name.  The    *)
(* file is a sequence of lines <<keyword, value>>.                         *)
(***************************************************************************)
Hosts == {"h1", "h2"}
\* the (login, password) pairs the calls are made with
Creds == {<<"u1", "p1">>, <<"u2", "p2">>}

Machine(n, l, p) == [name |-> n, login |-> l, password |-> p]
DefaultMachine == Machine("", "dl", "dp")

IsDefault(m) == m.name = ""

\* netrc.FindMachine: the index of the first record named `name`, else of the
\* default record, else 0 (nil)
FindMachine(ms, name) ==
    IF \E i \in DOMAIN ms : ms[i].name = name
    THEN CHOOSE i \in DOMAIN ms :
            ms[i].name = name /\ \A j \in DOMAIN ms : ms[j].name = name => i <= j
    ELSE IF \E i \in DOMAIN ms : IsDefault(ms[i])
    THEN CHOOSE i \in DOMAIN ms :
            IsDefault(ms[i]) /\ \A j \in DOMAIN ms : IsDefault(ms[j]) => j <= i
    ELSE 0

\* netrc.NewMachine: a new record is added to the store
NewMachine(ms, name, login, password) == Append(ms, Machine(name, login, password))

\* netrc.RemoveMachine: the first record named `name` is deleted
RemoveMachine(ms, name) ==
    IF \E i \in DOMAIN ms : ms[i].name = name
    THEN LET i == CHOOSE k \in DOMAIN ms :
                     ms[k].name = name /\ \A j \in DOMAIN ms : ms[j].name = name => k <= j
         IN  SubSeq(ms, 1, i - 1) \o SubSeq(ms, i + 1, Len(ms))
    ELSE ms

\* netrc.MarshalText: the lines of the file, record by record
RECURSIVE MarshalText(_)
MarshalText(ms) ==
    IF ms = <<>> THEN <<>>
    ELSE LET m == Head(ms) IN
         <<IF IsDefault(m) THEN <<"default", "">> ELSE <<"machine", m.name>>,
           <<"login", m.login>>, <<"password", m.password>>>>
         \o MarshalText(Tail(ms))

\* netrc.ParseFile: the records of a file; ok = FALSE when a field precedes
\* every record
RECURSIVE ParseFile(_, _)
ParseFile(lines, acc) ==
    IF lines = <<>> THEN [ok |-> TRUE, machines |-> acc]
    ELSE LET t == Head(lines) IN
         CASE t[1] = "default" ->
                ParseFile(Tail(lines), Append(acc, Machine("", "", "")))
           [] t[1] = "machine" ->
                ParseFile(Tail(lines), Append(acc, Machine(t[2], "", "")))
           [] OTHER ->
                IF acc = <<>> THEN [ok |-> FALSE, machines |-> acc]
                ELSE ParseFile(Tail(lines),
                               [acc EXCEPT ![Len(acc)] =
                                   IF t[1] = "login" THEN [@ EXCEPT !.login = t[2]]
                                   ELSE [@ EXCEPT !.password = t[2]]])

\* at most one concrete record per host, at most one default record
WellFormed(ms) ==
    \A i, j \in DOMAIN ms : ms[i].name = ms[j].name => i = j

\* the stores a run starts from
InitStores ==
    LET recs == {Machine(h, c[1], c[2]) : h \in Hosts, c \in Creds} \cup {DefaultMachine}
    IN  {ms \in SeqsUpTo(recs, 2) : WellFormed(ms)}

\* Upsert that treats the default record FindMachine returns as the host's
UpsertNoDefaultCheck(ms, host, user, pass) ==
    LET i  == FindMachine(ms, host)
        m1 == IF i = 0 THEN NewMachine(ms, host, user, pass) ELSE ms
        k  == IF i = 0 THEN Len(m1) ELSE i
    IN  [m1 EXCEPT ![k] = [@ EXCEPT !.login = user, !.password = pass]]

\* Upsert that adds a record whether or not the host has one
UpsertAlwaysNew(ms, host, user, pass) == NewMachine(ms, host, user, pass)

\* Upsert that leaves the password of an existing record as it was
UpsertLoginOnly(ms, host, user, pass) ==
    LET i  == FindMachine(ms, host)
        nw == i = 0 \/ IsDefault(ms[i])
        m1 == IF nw THEN NewMachine(ms, host, user, pass) ELSE ms
        k  == IF nw THEN Len(m1) ELSE i
    IN  [m1 EXCEPT ![k] = [@ EXCEPT !.login = user]]

\* creds.go:53-58: the in-memory part of SaveCreds
Upsert(ms, host, user, pass) ==
    LET i  == FindMachine(ms, host)
        nw == i = 0 \/ IsDefault(ms[i])
        m1 == IF nw THEN NewMachine(ms, host, user, pass) ELSE ms
        k  == IF nw THEN Len(m1) ELSE i
    IN  [m1 EXCEPT ![k] = [@ EXCEPT !.login = user, !.password = pass]]

DispatchIdle ==
    /\ args = <<>>
    /\ hkapp = ""
    /\ remotes = [n \in RemoteNames |-> ""]
    /\ plugins = {}
    /\ pc = "exit"
    /\ cmd = ""
    /\ flagApp = ""
    /\ rest = <<>>
    /\ appRes = NoAppRes
    /\ exitCode = -1
    /\ handler = NoHandler
    /\ trace = <<>>
    /\ gitLog = <<>>
    /\ remotes0 = remotes
    /\ mustRes = NoAppRes

\* LoadNetRc has read the file: memory and disk agree
CredsInit ==
    /\ machines \in InitStores
    /\ disk = MarshalText(machines)
    /\ cpc = "idle"
    /\ call = NoCall
    /\ body = <<>>
    /\ cerr = ""
    /\ pre = NoPre
    /\ seen = NoSeen
    /\ got = NoGot
    /\ DispatchIdle
    /\ ListIdle

\* creds.go:52-63: SaveCreds up to the call of ioutil.WriteFile
SaveCredsBegin(host, user, pass) ==
    /\ cpc = "idle"
    /\ Len(machines) < MaxMachines
    /\ pre' = [machines |-> machines, disk |-> disk]
    /\ call' = [op |-> "save", host |-> host, user |-> user, pass |-> pass]
    /\ machines' = Upsert(machines, host, user, pass)
    /\ body' = MarshalText(machines')
    /\ cerr' = ""
    /\ cpc' = "open"
    /\ seen' = NoSeen
    /\ got' = NoGot
    /\ UNCHANGED disk
    /\ UNCHANGED <<dvars, lvars>>

\* RemoveCredsBegin with the call of nrc.RemoveMachine left out
RemoveCredsBeginKeep(host) ==
    /\ cpc = "idle"
    /\ pre' = [machines |-> machines, disk |-> disk]
    /\ call' = [op |-> "remove", host |-> host, user |-> "", pass |-> ""]
    /\ machines' = machines
    /\ body' = MarshalText(machines')
    /\ cerr' = ""
    /\ cpc' = "open"
    /\ seen' = NoSeen
    /\ got' = NoGot
    /\ UNCHANGED disk
    /\ UNCHANGED <<dvars, lvars>>

\* creds.go:67-73: RemoveCreds up to the call of ioutil.WriteFile
RemoveCredsBegin(host) ==
    /\ cpc = "idle"
    /\ pre' = [machines |-> machines, disk |-> disk]
    /\ call' = [op |-> "remove", host |-> host, user |-> "", pass |-> ""]
    /\ machines' = RemoveMachine(machines, host)
    /\ body' = MarshalText(machines')
    /\ cerr' = ""
    /\ cpc' = "open"
    /\ seen' = NoSeen
    /\ got' = NoGot
    /\ UNCHANGED disk
    /\ UNCHANGED <<dvars, lvars>>

\* the call returns `err`
Return(err) ==
    /\ cpc' = "idle"
    /\ cerr' = err
    /\ pre' = [pre EXCEPT !.disk = <<>>]
    /\ UNCHANGED body

\* creds.go:64, 74: ioutil.WriteFile opens the file with O_WRONLY|O_CREATE|O_TRUNC
WriteFileOpen ==
    /\ cpc = "open"
    /\ \/ /\ disk' = <<>>
          /\ cpc' = "write"
          /\ UNCHANGED <<cerr, pre, body>>
       \/ /\ Return("open error")
          /\ UNCHANGED disk
    /\ UNCHANGED <<machines, call, seen, got>>
    /\ UNCHANGED <<dvars, lvars>>

\* creds.go:64, 74: ioutil.WriteFile writes the text and closes the file; a
\* failed write leaves the part already written
WriteFileWrite ==
    /\ cpc = "write"
    /\ \/ /\ disk' = body
          /\ Return("")
       \/ \E k \in 0 .. (Len(body) - 1) :
             /\ disk' = SubSeq(body, 1, k)
             /\ Return("write error")
    /\ UNCHANGED <<machines, call, seen, got>>
    /\ UNCHANGED <<dvars, lvars>>

\* GetCreds looking in the store before the URL's user-info
GetCredsStoreFirst(host, hasUser, urlUser, urlPass) ==
    /\ cpc = "idle"
    /\ LET i == FindMachine(machines, host)
           r == IF host = ""
                THEN [user |-> "", pass |-> "", err |-> "missing API host", looked |-> FALSE]
                ELSE IF i # 0
                THEN [user |-> machines[i].login, pass |-> machines[i].password,
                      err |-> "", looked |-> TRUE]
                ELSE IF hasUser
                THEN [user |-> urlUser, pass |-> urlPass, err |-> "", looked |-> TRUE]
                ELSE [user |-> "", pass |-> "", err |-> "", looked |-> TRUE]
       IN  got' = [called |-> TRUE, host |-> host, hasUser |-> hasUser,
                   urlUser |-> urlUser, urlPass |-> urlPass,
                   user |-> r.user, pass |-> r.pass, err |-> r.err,
                   looked |-> r.looked]
    /\ UNCHANGED <<machines, disk, cpc, call, body, cerr, pre, seen>>
    /\ UNCHANGED <<dvars, lvars>>

\* creds.go:33-50.  The URL is (host, hasUser, urlUser, urlPass): hasUser is
\* apiURL.User != nil.  looked: the call reached nrc.FindMachine.
GetCreds(host, hasUser, urlUser, urlPass) ==
    /\ cpc = "idle"
    /\ LET i == FindMachine(machines, host)
           r == IF host = ""
                THEN [user |-> "", pass |-> "", err |-> "missing API host", looked |-> FALSE]
                ELSE IF hasUser
                THEN [user |-> urlUser, pass |-> urlPass, err |-> "", looked |-> FALSE]
                ELSE IF i = 0
                THEN [user |-> "", pass |-> "", err |-> "", looked |-> TRUE]
                ELSE [user |-> machines[i].login, pass |-> machines[i].password,
                      err |-> "", looked |-> TRUE]
       IN  got' = [called |-> TRUE, host |-> host, hasUser |-> hasUser,
                   urlUser |-> urlUser, urlPass |-> urlPass,
                   user |-> r.user, pass |-> r.pass, err |-> r.err,
                   looked |-> r.looked]
    /\ UNCHANGED <<machines, disk, cpc, call, body, cerr, pre, seen>>
    /\ UNCHANGED <<dvars, lvars>>

\* creds.go:24-31: a second instance of the tool reads the file while this
\* instance's SaveCreds or RemoveCreds is running
LoadNetRcOther ==
    /\ cpc # "idle"
    /\ ~seen.read
    /\ seen' = [read |-> TRUE, text |-> disk, old |-> pre.disk, new |-> body]
    /\ UNCHANGED <<machines, disk, cpc, call, body, cerr, pre, got>>
    /\ UNCHANGED <<dvars, lvars>>

\* the URLs GetCreds is called with
UrlUsers == {"", "uu"}
UrlPasswords == {"", "up"}

Mutate ==
    \/ \E h \in Hosts, c \in Creds : SaveCredsBegin(h, c[1], c[2])
    \/ \E h \in Hosts : RemoveCredsBegin(h)
    \/ WriteFileOpen
    \/ WriteFileWrite

\* one instance: its mutations and its lookups
CredsNext ==
    \/ Mutate
    \/ \E h \in Hosts \cup {""}, u \in UrlUsers, p \in UrlPasswords :
          GetCreds(h, u # "", u, IF u = "" THEN "" ELSE p)

CredsSpec == CredsInit /\ [][CredsNext]_vars

\* one instance mutating, a second instance reading the file
SharedNext ==
    \/ Mutate
    \/ LoadNetRcOther

SharedSpec == CredsInit /\ [][SharedNext]_vars


(***************************************************************************)
(* Properties of the credential store                                      *)
(***************************************************************************)
HasConcrete(ms, host) == \E i \in DOMAIN ms : ms[i].name = host /\ ~IsDefault(ms[i])
HasDefault(ms) == \E i \in DOMAIN ms : IsDefault(ms[i])

\* ms without its i-th record
Without(ms, i) == SubSeq(ms, 1, i - 1) \o SubSeq(ms, i + 1, Len(ms))

\* the last call was SaveCreds, for a host that had no concrete record while
\* a default record was present
SavedBesideDefault ==
    /\ call.op = "save"
    /\ ~HasConcrete(pre.machines, call.host)
    /\ HasDefault(pre.machines)

\* C5: SaveCreds for a host with no concrete record, made while a default
\* record is present, leaves the default record (and every other record) as it
\* was and adds one concrete record for the host with the given login and
\* password.
C5_DefaultUntouched ==
    SavedBesideDefault =>
        /\ Len(machines) = Len(pre.machines) + 1
        /\ \A j \in DOMAIN pre.machines :
              IsDefault(pre.machines[j]) =>
                  \E k \in DOMAIN machines : machines[k] = pre.machines[j]
        /\ \E i \in DOMAIN machines :
              /\ machines[i] = Machine(call.host, call.user, call.pass)
              /\ Without(machines, i) = pre.machines

C5_Witness ==
    /\ SavedBesideDefault
    /\ Len(pre.machines) = 2
    /\ cpc = "idle"
    /\ cerr = ""
    /\ disk = MarshalText(machines)

\* C6 as stated: while SaveCreds or RemoveCreds runs, every step leaves the
\* file either as it was before the call or as the complete new text, and a
\* step that fails leaves it as it was before the call.
C6_FileOldOrNew ==
    [][cpc # "idle" =>
          /\ disk' \in {pre.disk, body}
          /\ cerr' # "" => disk' = pre.disk]_vars

\* C7 as stated: a second instance that reads the file while SaveCreds or
\* RemoveCreds runs reads the complete text from before the call or the
\* complete new text.
C7_ReaderSeesOldOrNew == seen.read => seen.text \in {seen.old, seen.new}

\* C8: the store never holds two concrete records for one host.
C8_OneRecordPerHost ==
    \A i, j \in DOMAIN machines :
        (machines[i].name = machines[j].name /\ ~IsDefault(machines[i])) => i = j

C8_Witness ==
    /\ call.op = "save"
    /\ HasConcrete(pre.machines, call.host)
    /\ Cardinality({i \in DOMAIN machines : machines[i].name = call.host}) = 1
    /\ Len(machines) = 3
    /\ cpc = "idle"

\* the last call was SaveCreds, for a host that had a concrete record
SavedOverConcrete ==
    /\ call.op = "save"
    /\ HasConcrete(pre.machines, call.host)

\* C9: SaveCreds for a host that has a concrete record sets that record's
\* login and password, adds no record, and leaves every other record and the
\* order of the records as they were.
C9_UpdateInPlace ==
    SavedOverConcrete =>
        machines = [i \in DOMAIN pre.machines |->
                       IF pre.machines[i].name = call.host
                       THEN Machine(call.host, call.user, call.pass)
                       ELSE pre.machines[i]]

C9_Witness ==
    /\ SavedOverConcrete
    /\ HasDefault(pre.machines)
    /\ Len(pre.machines) = 3
    /\ machines # pre.machines
    /\ cpc = "idle"
    /\ cerr = ""

\* a step that is a call of GetCreds
GetCredsStep == got' # got /\ got'.called

\* C10 as stated: for a URL with user-info GetCreds returns the URL's username
\* and password, without reading or changing the store.
C10_UserInfoWins ==
    [][(GetCredsStep /\ got'.hasUser) =>
          /\ got'.user = got'.urlUser
          /\ got'.pass = got'.urlPass
          /\ got'.err = ""
          /\ ~got'.looked
          /\ machines' = machines
          /\ disk' = disk]_vars

\* C10 amended: the same for a URL with a non-empty host; a URL without a
\* host gets the missing-host error and no credentials, user-info or not; and
\* a record of the store is returned only for a URL without user-info.
C10_UserInfoWinsWithHost ==
    [][GetCredsStep =>
          /\ machines' = machines
          /\ disk' = disk
          /\ (got'.hasUser /\ got'.host # "") =>
                /\ got'.user = got'.urlUser
                /\ got'.pass = got'.urlPass
                /\ got'.err = ""
                /\ ~got'.looked
          /\ got'.host = "" =>
                /\ got'.err # ""
                /\ got'.user = ""
                /\ got'.pass = ""
                /\ ~got'.looked
          /\ got'.looked => ~got'.hasUser]_vars

C10_Witness ==
    /\ got.called
    /\ got.hasUser
    /\ got.host # ""
    /\ HasConcrete(machines, got.host)
    /\ HasDefault(machines)
    /\ got.user = got.urlUser
    /\ got.pass = got.urlPass
    /\ \A i \in DOMAIN machines : machines[i].login # got.user

\* the run ended in the unknown-command report of main.go:242-247
UnknownReported ==
    /\ pc = "exit"
    /\ InTrace("unknown")
    /\ exitCode = ExitUsage

\* C11: when the first argument matches no command of the loop and findPlugin
\* finds no plugin of that name, no handler and no execPlugin ever runs, and
\* the run ends with the report "Unknown command", followed by the line of
\* alternatives exactly when suggest yields some, and exit status 2.
C11_UnknownCommand ==
    (HasName /\ ~NamesRunnable /\ args[1].v \notin plugins) =>
        /\ handler = NoHandler
        /\ pc # "exec"
        /\ ~InTrace("execPlugin")
        /\ pc = "exit" =>
             /\ UnknownReported
             /\ InTrace("alternatives") <=> suggest(args[1].v) # {}
             /\ trace[Len(trace)] \in {"unknown", "alternatives"}

C11_Witness ==
    /\ UnknownReported
    /\ args[1].v = "creat"
    /\ InTrace("alternatives")
    /\ Len(args) = 2

\* every e1 of the trace comes before every e2
Before(e1, e2) ==
    \A i, j \in DOMAIN trace : (trace[i] = e1 /\ trace[j] = e2) => i < j

\* a handler was invoked by the loop of main.go:204-238
LoopInvoked == handler # NoHandler /\ handler.name # cmdUpdate.name

\* C12 as stated: credential loading and client initialisation happen only
\* after flag parsing (and app-context resolution) completed successfully.
C12_AuthAfterParse ==
    \A i \in DOMAIN trace :
        trace[i] = "initClients" => \E j \in 1..(i - 1) : trace[j] = "parse"

\* C12 amended: a dispatch through the loop performs initClients (load the
\* credential store, build the API clients) first, then flag parsing, then the
\* app-context resolution, then the handler: initClients precedes every flag
\* parse, failed ones included; update is invoked with no initClients at all.
C12_AuthBeforeParse ==
    /\ (InTrace("parse") \/ InTrace("parsefail")) => trace[1] = "initClients"
    /\ Before("initClients", "parse") /\ Before("initClients", "parsefail")
    /\ LoopInvoked =>
         /\ trace[1] = "initClients" /\ trace[2] = "parse"
         /\ Before("parse", "gitremote")
         /\ Before("gitremote", "app")
         /\ Before("parse", "app")
         /\ Before("app", "invoke")
         /\ CommandNamed(handler.name).needsApp => InTrace("app")
    /\ handler.name = cmdUpdate.name =>
         /\ trace[1] = "invoke"
         /\ ~InTrace("initClients") /\ ~InTrace("parse")

C12_Witness ==
    /\ LoopInvoked
    /\ CommandNamed(handler.name).needsApp
    /\ InTrace("gitremote")
    /\ pc = "exit"

\* the result of resolving afresh from the -a value as given, the environment
\* variable env and the remotes rs: main.go:215-219 followed by app()
Derive(flag, env, rs) ==
    IF flag # ""
    THEN {[a |-> IF o.err = "" THEN o.a ELSE flag, err |-> ""] :
              o \in appFromGitRemote(rs, flag)}
    ELSE {[a |-> o.a, err |-> o.err] : o \in app("", env, rs)}

\* C13 as stated: the handler's call of app() (mustApp) yields what a fresh
\* derivation from the -a value as the user gave it, HKAPP and the remotes of
\* that moment yields, also when the flag names a remote.
C13_NoCaching ==
    InTrace("mustApp") => mustRes \in Derive(GivenFlag, hkapp, remotes)

\* C13 amended: with no -a flag the handler's call re-derives its result from
\* HKAPP and the remotes of that moment; with an -a flag it returns the value
\* the dispatcher stored in flagApp, which is the flag's translation through
\* the remotes of the dispatcher's time (or the flag itself), whatever the
\* remotes are now.
C13_FlagTranslatedOnce ==
    InTrace("mustApp") =>
        IF GivenFlag # ""
        THEN /\ mustRes = [a |-> flagApp, err |-> ""]
             /\ mustRes = appRes
             /\ mustRes \in Derive(GivenFlag, hkapp, remotes0)
        ELSE mustRes \in Derive("", hkapp, remotes)

C13_Witness ==
    /\ InTrace("gitchange")
    /\ InTrace("mustApp")
    /\ GivenFlag = ""
    /\ hkapp = ""
    /\ appRes.err = "" /\ mustRes.err = ""
    /\ mustRes.a # appRes.a

\* C14: a non-empty -a value is first passed to appFromGitRemote as a remote
\* name; when that succeeds the resolved app is the remote's app, when it
\* fails (no such remote, or git failing) the resolved app is the flag value
\* itself, and the failure leads neither to an error nor to the usage exit:
\* the dispatcher's resolution succeeds and the handler is invoked.
C14_FlagRemoteOrLiteral ==
    (InTrace("gitremote") /\ GivenFlag # "") =>
        /\ gitLog[1] = GivenFlag
        /\ InTrace("translated") # InTrace("literal")
        /\ InTrace("translated") =>
             /\ GivenFlag \in RemoteNames
             /\ remotes0[GivenFlag] # ""
             /\ flagApp = remotes0[GivenFlag]
        /\ InTrace("literal") => flagApp = GivenFlag
        /\ ~InTrace("nouse") /\ ~InTrace("fatal")
        /\ Resolved => appRes = [a |-> flagApp, err |-> ""]
        /\ pc = "exit" => handler = [name |-> cmd, args |-> rest]

C14_Witness ==
    /\ InTrace("literal")
    /\ GivenFlag \in RemoteNames
    /\ remotes0[GivenFlag] # ""
    /\ appRes.a = GivenFlag
    /\ handler.name = cmdReleases.name
    /\ pc = "exit"

\* C15: whenever a handler is invoked, the arguments after the command name
\* parsed against the command's flag schema, and the handler received exactly
\* the positional arguments the parse left over: never the command name,
\* never an unparsed flag; update included.
C15_HandlerGetsPositionals ==
    handler # NoHandler =>
        LET p == ParseFlags(SchemaOf(CommandNamed(handler.name)), Tail(args), "")
        IN  /\ ~p.err
            /\ handler.args = p.rest

(***************************************************************************)
(* listReleases with a non-empty list of versions (releases.go:78-110)     *)
(***************************************************************************)
\* the longest list of versions requested
MaxVersions == 3

\* version names a user can type; "" is an empty argument
VersionNames == {"", "1", "v2", "3"}

\* strings.TrimPrefix(name, "v") at releases.go:91
TrimPrefixV(name) == IF name = "v2" THEN "2" ELSE name

\* the Version of the release ReleaseInfo answers for relname
ReleaseVersion(relname) ==
    CASE relname = "1" -> 1
      [] relname = "2" -> 2
      [] relname = "3" -> 3

\* a channel with one slot less than requests
chanCapShort(vs) == Len(vs) - 1

\* releases.go:79-80: the capacity of relch and of errch
chanCap(vs) == Len(vs)

\* s is ascending; x is put after the entries that are not greater
InsertSorted(s, x) ==
    LET k == Cardinality({i \in DOMAIN s : s[i] <= x})
    IN  SubSeq(s, 1, k) \o <<x>> \o SubSeq(s, k + 1, Len(s))

\* releases.go:105 with the order of releasesByVersion (releases.go:143-147)
RECURSIVE SortByVersion(_)
SortByVersion(s) ==
    IF s = <<>> THEN <<>> ELSE InsertSorted(SortByVersion(Tail(s)), Head(s))

NoWorker == [st |-> "none", relname |-> "", res |-> ""]

\* listReleases has passed mustApp and made the two channels
ListInit ==
    /\ versions \in SeqsUpTo(VersionNames, MaxVersions) \ {<<>>}
    /\ rpc = "spawn"
    /\ spawned = 0
    /\ workers = [i \in 1..Len(versions) |-> NoWorker]
    /\ relch = <<>>
    /\ errch = <<>>
    /\ recvd = 0
    /\ rels = <<>>
    /\ rows = <<>>
    /\ fatalErr = 0
    /\ AbbrevIdle
    /\ DispatchIdle
    /\ CredsIdle

\* the process is alive and listReleases has not returned
Alive == rpc \in {"spawn", "collect"}

\* releases.go:81-93: one iteration of the loop that starts the lookups; an
\* empty name is answered by a nil sent on relch by the loop itself
SpawnNext ==
    /\ rpc = "spawn"
    /\ LET i == spawned + 1 IN
       /\ IF versions[i] = ""
          THEN /\ Len(relch) < chanCap(versions)
               /\ relch' = Append(relch, 0)
               /\ UNCHANGED workers
          ELSE /\ workers' = [workers EXCEPT ![i] =
                     [st |-> "calling", relname |-> TrimPrefixV(versions[i]), res |-> ""]]
               /\ UNCHANGED relch
       /\ spawned' = i
       /\ rpc' = IF i = Len(versions) THEN "collect" ELSE "spawn"
    /\ UNCHANGED <<versions, errch, recvd, rels, rows, fatalErr>>
    /\ UNCHANGED <<dvars, cvars, evars>>

\* releases.go:85: client.ReleaseInfo returns to goroutine i
WorkerLookup(i) ==
    /\ Alive
    /\ workers[i].st = "calling"
    /\ \E r \in {"ok", "err"} :
          workers' = [workers EXCEPT ![i].st = "send", ![i].res = r]
    /\ UNCHANGED <<versions, rpc, spawned, relch, errch, recvd, rels, rows, fatalErr>>
    /\ UNCHANGED <<dvars, cvars, evars>>

\* releases.go:86-89: goroutine i sends its error or its release
WorkerSend(i) ==
    /\ Alive
    /\ workers[i].st = "send"
    /\ IF workers[i].res = "err"
       THEN /\ Len(errch) < chanCap(versions)
            /\ errch' = Append(errch, ReleaseVersion(workers[i].relname))
            /\ UNCHANGED relch
       ELSE /\ Len(relch) < chanCap(versions)
            /\ relch' = Append(relch, ReleaseVersion(workers[i].relname))
            /\ UNCHANGED errch
    /\ workers' = [workers EXCEPT ![i].st = "done"]
    /\ UNCHANGED <<versions, rpc, spawned, recvd, rels, rows, fatalErr>>
    /\ UNCHANGED <<dvars, cvars, evars>>

\* RecvErr with the error dropped and the loop going on
RecvErrContinue ==
    /\ rpc = "collect"
    /\ errch # <<>>
    /\ errch' = Tail(errch)
    /\ recvd' = recvd + 1
    /\ rpc' = IF recvd + 1 = Len(versions) THEN "sort" ELSE "collect"
    /\ UNCHANGED <<versions, spawned, workers, relch, rels, rows, fatalErr>>
    /\ UNCHANGED <<dvars, cvars, evars>>

\* releases.go:95-97: the select takes an error and printFatal ends the process
RecvErr ==
    /\ rpc = "collect"
    /\ errch # <<>>
    /\ fatalErr' = Head(errch)
    /\ errch' = Tail(errch)
    /\ recvd' = recvd + 1
    /\ rpc' = "fatal"
    /\ UNCHANGED <<versions, spawned, workers, relch, rels, rows>>
    /\ UNCHANGED <<dvars, cvars, evars>>

\* releases.go:98-101: the select takes a release (or a nil)
RecvRel ==
    /\ rpc = "collect"
    /\ relch # <<>>
    /\ rels' = IF Head(relch) # 0 THEN Append(rels, Head(relch)) ELSE rels
    /\ relch' = Tail(relch)
    /\ recvd' = recvd + 1
    /\ rpc' = IF recvd + 1 = Len(versions) THEN "sort" ELSE "collect"
    /\ UNCHANGED <<versions, spawned, workers, errch, rows, fatalErr>>
    /\ UNCHANGED <<dvars, cvars, evars>>

\* releases.go:105-109: the releases are sorted and one row each is printed
PrintRows ==
    /\ rpc = "sort"
    /\ rows' = SortByVersion(rels)
    /\ rpc' = "done"
    /\ UNCHANGED <<versions, spawned, workers, relch, errch, recvd, rels, fatalErr>>
    /\ UNCHANGED <<dvars, cvars, evars>>

ListNext ==
    \/ SpawnNext
    \/ \E i \in DOMAIN workers : WorkerLookup(i)
    \/ \E i \in DOMAIN workers : WorkerSend(i)
    \/ RecvErr
    \/ RecvRel
    \/ PrintRows

ListSpec == ListInit /\ [][ListNext]_vars

\* every goroutine that can run does run, and so does listReleases
ListFairSpec == ListSpec /\ WF_vars(ListNext)

\* entry i has put its message on a channel
Sent(i) ==
    \/ versions[i] = "" /\ i <= spawned
    \/ workers[i].st = "done"

\* a sender is at its send and the channel has no room
BlockedSend ==
    \/ \E i \in DOMAIN workers :
          /\ workers[i].st = "send"
          /\ \/ workers[i].res = "err" /\ Len(errch) >= chanCap(versions)
             \/ workers[i].res = "ok" /\ Len(relch) >= chanCap(versions)
    \/ /\ rpc = "spawn"
       /\ versions[spawned + 1] = ""
       /\ Len(relch) >= chanCap(versions)

FanInInv ==
    /\ Len(relch) + Len(errch) + recvd = Cardinality({i \in DOMAIN versions : Sent(i)})
    /\ ~BlockedSend
    /\ recvd <= Len(versions)
    /\ rpc \in {"sort", "done"} =>
         /\ recvd = Len(versions)
         /\ \A i \in DOMAIN versions : Sent(i)
         /\ relch = <<>> /\ errch = <<>>
    /\ (rpc = "collect" /\ relch = <<>> /\ errch = <<>>) =>
         \E i \in DOMAIN workers : workers[i].st \in {"calling", "send"}

\* C16: every requested version, the empty ones included, puts at most one
\* message on relch or errch and has put exactly one when the collecting loop
\* ends normally; no send ever finds its channel full; the collecting loop
\* takes one message per iteration, never waits when no message can come any
\* more, and under every interleaving listReleases ends, by returning after
\* one message per version or by the fatal exit.
C16_FanIn == []FanInInv /\ <>(rpc \in {"done", "fatal"})

C16_Witness ==
    /\ rpc = "done"
    /\ Len(versions) >= 2
    /\ \E i \in DOMAIN versions : versions[i] = ""
    /\ rels # <<>>

\* the lookups that failed
Failed == {i \in DOMAIN workers : workers[i].res = "err"}

\* the versions requested by a non-empty name
Requested == {i \in DOMAIN versions : versions[i] # ""}

\* C17: once a lookup has failed no row is ever printed and the run can only
\* end in the fatal exit, taken at the first error received; rows are printed
\* only when every lookup succeeded, and then there is exactly one row per
\* non-empty requested version, in ascending order of version.
C17_FailFast ==
    /\ Failed # {} => rows = <<>> /\ rpc \notin {"sort", "done"}
    /\ fatalErr # 0 <=> rpc = "fatal"
    /\ rpc = "fatal" => rows = <<>> /\ fatalErr \in {ReleaseVersion(workers[i].relname) : i \in Failed}
    /\ rpc # "done" => rows = <<>>
    /\ rpc = "done" =>
         /\ Len(rows) = Cardinality(Requested)
         /\ \A i, j \in DOMAIN rows : i < j => rows[i] <= rows[j]
         /\ \A v \in 1..3 :
              Cardinality({i \in DOMAIN rows : rows[i] = v}) =
              Cardinality({i \in Requested : ReleaseVersion(TrimPrefixV(versions[i])) = v})

C17_Witness ==
    /\ rpc = "done"
    /\ Len(rows) >= 2
    /\ rels # rows

(***************************************************************************)
(* abbrevEmailReleases (releases.go:112-131)                               *)
(***************************************************************************)
\* the longest list of releases
MaxRels == 3

\* author emails: l is the text before the first "@", d the "@" and what
\* follows it ("" when the email has no "@")
Email(l, d) == [l |-> l, d |-> d]
EmailSet == {Email("a", "@x"), Email("b", "@x"), Email("c", "@y"), Email("d", "")}

\* releases.go:113-119: the number of emails of each domain
CountDomains(es) ==
    LET ds == {es[i].d : i \in DOMAIN es} \ {""}
    IN  [s \in ds |-> Cardinality({i \in DOMAIN es : es[i].d = s})]

\* releases.go:126-130: strings.HasSuffix(r.Who, suffix) and the cut
StripSuffix(e, suffix) ==
    IF suffix # "" /\ e.d = suffix THEN Email(e.l, "") ELSE e

\* abbrevEmailReleases is called with the releases collected
AbbrevInit ==
    /\ emails \in SeqsUpTo(EmailSet, MaxRels)
    /\ epc = "count"
    /\ domains = <<>>
    /\ todo = {}
    /\ smax = ""
    /\ nmax = 0
    /\ who = <<>>
    /\ versions = <<>>
    /\ rpc = "idle"
    /\ spawned = 0
    /\ workers = <<>>
    /\ relch = <<>>
    /\ errch = <<>>
    /\ recvd = 0
    /\ rels = <<>>
    /\ rows = <<>>
    /\ fatalErr = 0
    /\ DispatchIdle
    /\ CredsIdle

\* releases.go:113-120
AbbrevCount ==
    /\ epc = "count"
    /\ who' = emails
    /\ domains' = CountDomains(emails)
    /\ todo' = DOMAIN CountDomains(emails)
    /\ epc' = "range"
    /\ UNCHANGED <<emails, smax, nmax>>
    /\ UNCHANGED <<dvars, cvars, rvars>>

\* releases.go:121-125: one iteration of the range over the map, which visits
\* the keys in an order the runtime chooses; nmax is compared and never assigned
AbbrevVisit ==
    /\ epc = "range"
    /\ \E s \in todo :
          /\ smax' = IF domains[s] > nmax THEN s ELSE smax
          /\ todo' = todo \ {s}
    /\ UNCHANGED <<emails, epc, domains, nmax, who>>
    /\ UNCHANGED <<dvars, cvars, rvars>>

\* releases.go:126-130
AbbrevStrip ==
    /\ epc = "range"
    /\ todo = {}
    /\ who' = [i \in DOMAIN who |-> StripSuffix(who[i], smax)]
    /\ epc' = "done"
    /\ UNCHANGED <<emails, domains, todo, smax, nmax>>
    /\ UNCHANGED <<dvars, cvars, rvars>>

AbbrevNext ==
    \/ AbbrevCount
    \/ AbbrevVisit
    \/ AbbrevStrip

AbbrevSpec == AbbrevInit /\ [][AbbrevNext]_vars

\* C18: when abbrevEmailReleases is done, the suffix it chose is a domain of
\* the highest count among the emails (none only when no email has a domain),
\* and exactly the authors with that domain lost it.
C18_MostFrequent ==
    epc = "done" =>
        /\ IF DOMAIN domains = {} THEN smax = ""
           ELSE /\ smax \in DOMAIN domains
                /\ \A s \in DOMAIN domains : domains[s] <= domains[smax]
        /\ \A i \in DOMAIN emails :
              who[i] = IF emails[i].d = smax THEN Email(emails[i].l, "") ELSE emails[i]

(***************************************************************************)
(* Round trip and agreement of memory and file                             *)
(***************************************************************************)
\* the last SaveCreds / RemoveCreds returned nil and GetCreds was then called
\* for its host with a URL that has no user-info
LookedUpAfter(op) ==
    /\ cpc = "idle"
    /\ call.op = op
    /\ cerr = ""
    /\ got.called
    /\ got.host = call.host
    /\ ~got.hasUser

\* the login and password of the records of ms GetCreds can answer host with
Answers(ms, host) ==
    LET i == FindMachine(ms, host)
    IN  IF i = 0 THEN <<"", "">> ELSE <<ms[i].login, ms[i].password>>

\* C19: whatever the store held before, after SaveCreds(host, user, pass)
\* returned nil GetCreds for that host (no user-info) returns (user, pass);
\* after RemoveCreds(host) returned nil the store has no record of that host
\* and GetCreds for it returns the default record's values, or nothing, and
\* not the login and password of the record removed.
C19_RoundTrip ==
    /\ LookedUpAfter("save") =>
         /\ got.err = ""
         /\ <<got.user, got.pass>> = <<call.user, call.pass>>
    /\ LookedUpAfter("remove") =>
         /\ got.err = ""
         /\ ~HasConcrete(machines, call.host)
         /\ <<got.user, got.pass>> =
              IF HasDefault(machines)
              THEN <<DefaultMachine.login, DefaultMachine.password>>
              ELSE <<"", "">>
         /\ HasConcrete(pre.machines, call.host) =>
              <<got.user, got.pass>> # Answers(pre.machines, call.host)

C19_Witness ==
    /\ LookedUpAfter("remove")
    /\ HasConcrete(pre.machines, call.host)
    /\ HasDefault(machines)
    /\ got.user = DefaultMachine.login

\* C20: whenever no SaveCreds / RemoveCreds call is running the file is the
\* serialisation of the records in memory, and after a call that returned an
\* error the records in memory are those of before the call.
C20_MemoryMatchesFile ==
    cpc = "idle" =>
        /\ disk = MarshalText(machines)
        /\ cerr # "" => machines = pre.machines

=============================================================================
